---- MODULE Spec2Model ----
(***************************************************************************)
(* Model of the agent-event confirmation handler                           *)
(* (server/src/handlers/agent_confirm.ts).  Every `await` of agentConfirm  *)
(* is a point where another call may run, so one call is a sequence of     *)
(* atomic steps: the select, then either the rejecting update, or (for a   *)
(* create_task event) the Task insert followed by the final update.        *)
(***************************************************************************)
EXTENDS Integers, Sequences, FiniteSets, TLC

(***************************************************************************)
(* Bounds                                                                  *)
(***************************************************************************)
MaxCalls == 2
MaxEvents == 2

CallIds == 1..MaxCalls
EventIds == 1..MaxEvents

(***************************************************************************)
(* Values of the record store                                              *)
(***************************************************************************)
\* the id no stored AgentEvent or workspace has (agent_confirm.test.ts:195, 269)
MissingId == 99999
\* the workspace the tests create (agent_confirm.test.ts:26-33)
Workspaces == {1}

\* JavaScript null of a nullable column or of the event's output
Null == "<null>"
NullOutput == [null |-> TRUE]

Priorities == {"low", "med", "high"}

\* r.f of a loosely typed record with string fields: undefined when absent
Has(r, f) == f \in DOMAIN r

\* JavaScript truthiness of an optional string field: undefined and "" are falsy
Truthy(r, f) == Has(r, f) /\ r[f] # ""

\* new Date(s) followed by the driver's toISOString(): an ISO date string is
\* widened to a full timestamp, anything else is an Invalid Date
ParseDate(s) ==
    IF s = "2025-06-01" THEN "2025-06-01T00:00:00.000Z" ELSE "Invalid Date"

\* the inputs of create_task events
TaskInputs ==
    { [workspace_id |-> 1, title |-> "Agent Created Task",
       description |-> "Task created by agent", priority |-> "high"],
      [title |-> "Test Task", workspace_id |-> 1],
      [title |-> "Invalid Task", workspace_id |-> MissingId],
      [title |-> "Test Task"],
      [workspace_id |-> 1, description |-> "no title"],
      [workspace_id |-> 1, title |-> "Blank", description |-> "",
       priority |-> ""],
      [workspace_id |-> 1, title |-> "Low", priority |-> "low"],
      [workspace_id |-> 1, title |-> "Med", priority |-> "med",
       due_at |-> "2025-06-01"],
      [workspace_id |-> 1, title |-> "Urgent", priority |-> "urgent"],
      [workspace_id |-> 1, title |-> "Late", due_at |-> "tomorrow"] }

MeetingInput == [title |-> "Team Meeting", duration |-> 60]

\* the statuses of an AgentEvent; "draft" stands for the statuses only the
\* upstream producers of events write
Statuses == {"draft", "awaiting_confirmation", "executed", "error"}

\* the AgentEvent rows the store may hold before any confirm call
StoredEvents ==
    { [workspace_id |-> 1, agent |-> "task_agent", action |-> "create_task",
       input |-> i, status |-> "awaiting_confirmation", output |-> NullOutput]
        : i \in TaskInputs }
    \cup
    { [workspace_id |-> 1, agent |-> "calendar_agent",
       action |-> "schedule_meeting", input |-> MeetingInput,
       status |-> "awaiting_confirmation", output |-> NullOutput],
      [workspace_id |-> 1, agent |-> "task_agent",
       action |-> "CREATE_TASK", input |-> [title |-> "Test Task",
                                            workspace_id |-> 1],
       status |-> "awaiting_confirmation", output |-> NullOutput] }
    \cup
    { [workspace_id |-> 1, agent |-> "task_agent", action |-> "create_task",
       input |-> [title |-> "Test Task"], status |-> s, output |-> NullOutput]
        : s \in Statuses \ {"awaiting_confirmation"} }

\* the row of every event after the first
OtherEvents ==
    { [workspace_id |-> 1, agent |-> "task_agent", action |-> "create_task",
       input |-> [title |-> "Test Task", workspace_id |-> 1],
       status |-> "awaiting_confirmation", output |-> NullOutput] }

(***************************************************************************)
(* State                                                                   *)
(***************************************************************************)
VARIABLES
    events,          \* agentEventsTable: id -> row
    tasks,           \* tasksTable: set of rows
    nextTaskId,      \* serial of tasksTable.id
    clock,           \* the time new Date() reads
    pc,              \* per call: the await it is suspended at
    input,           \* per call: AgentConfirmInput
    existingEvent,   \* per call: the row the select returned
    rejectedAt,      \* per call: rejected_at of the rejecting update
    outputData,      \* per call
    executionResult, \* per call
    response,        \* per call: the value returned or the error thrown
    startedAfter,    \* history, per call: a call on its event had already
                     \* returned when this one started
    overlapped,      \* history, per event: two calls on it were in progress
                     \* at the same time
    inserted,        \* history, per call: ids of the Tasks it inserted
    updates          \* history, per call: number of event updates it made

vars == <<events, tasks, nextTaskId, clock, pc, input, existingEvent,
          rejectedAt, outputData, executionResult, response,
          startedAfter, overlapped, inserted, updates>>

store == <<events, tasks, nextTaskId>>
locals == <<existingEvent, rejectedAt, outputData, executionResult>>
history == <<startedAfter, overlapped, inserted, updates>>

NoInput == [event_id |-> 0, approved |-> FALSE]
NoEvent == [id |-> 0]
NoResponse == [pending |-> TRUE]

InProgress(c) == pc[c] \in {"select", "update_rejected", "insert", "update"}
Finished(c) == pc[c] \in {"returned", "thrown"}

(***************************************************************************)
(* Record store                                                            *)
(***************************************************************************)
\* db.select().from(agentEventsTable).where(eq(id, ...)): the matching rows
SelectEvents(id) ==
    IF id \in DOMAIN events THEN <<[id |-> id] @@ events[id]>> ELSE << >>

\* mutant: the update sets the output and leaves the status column out
UpdateAgentEvent_NoStatus(id, values) ==
    [events EXCEPT ![id] = [@ EXCEPT !.output = values.output]]

\* mutant: the update has no where clause and writes every row
UpdateAgentEvent_AllRows(id, values) ==
    [e \in DOMAIN events |-> [events[e] EXCEPT !.status = values.status,
                                               !.output = values.output]]

\* db.update(agentEventsTable).set(values).where(eq(id, ...)): no condition
\* on the row's status
UpdateAgentEvent(id, values) ==
    [events EXCEPT ![id] = [@ EXCEPT !.status = values.status,
                                     !.output = values.output]]

\* mutant: every Task gets the default priority
TaskValues_DefaultPriority(taskInput) ==
    [workspace_id |-> IF Has(taskInput, "workspace_id")
                      THEN taskInput.workspace_id ELSE 0,
     title        |-> IF Has(taskInput, "title") THEN taskInput.title ELSE Null,
     description  |-> IF Truthy(taskInput, "description")
                      THEN taskInput.description ELSE Null,
     priority     |-> "med",
     due_at       |-> IF Truthy(taskInput, "due_at")
                      THEN ParseDate(taskInput.due_at) ELSE Null,
     status       |-> "todo"]

\* the values of the Task insert
TaskValues(taskInput) ==
    [workspace_id |-> IF Has(taskInput, "workspace_id")
                      THEN taskInput.workspace_id ELSE 0,
     title        |-> IF Has(taskInput, "title") THEN taskInput.title ELSE Null,
     description  |-> IF Truthy(taskInput, "description")
                      THEN taskInput.description ELSE Null,
     priority     |-> IF Truthy(taskInput, "priority")
                      THEN taskInput.priority ELSE "med",
     due_at       |-> IF Truthy(taskInput, "due_at")
                      THEN ParseDate(taskInput.due_at) ELSE Null,
     status       |-> "todo"]

\* the error db.insert(tasksTable) throws for these values, "" when it succeeds
InsertError(values) ==
    IF values.due_at = "Invalid Date" THEN "Invalid time value"
    ELSE IF values.workspace_id = 0
    THEN "null value in column \"workspace_id\" violates not-null constraint"
    ELSE IF values.title = Null
    THEN "null value in column \"title\" violates not-null constraint"
    ELSE IF values.priority \notin Priorities
    THEN "invalid input value for enum task_priority"
    ELSE IF values.workspace_id \notin Workspaces
    THEN "insert or update on table \"tasks\" violates foreign key constraint"
    ELSE ""

(***************************************************************************)
(* agentConfirm                                                            *)
(***************************************************************************)
Init ==
    /\ events \in [EventIds -> StoredEvents \cup OtherEvents]
    /\ \A e \in EventIds \ {1} : events[e] \in OtherEvents
    /\ tasks = {}
    /\ nextTaskId = 1
    /\ clock = 1
    /\ pc = [c \in CallIds |-> "idle"]
    /\ input = [c \in CallIds |-> NoInput]
    /\ existingEvent = [c \in CallIds |-> NoEvent]
    /\ rejectedAt = [c \in CallIds |-> 0]
    /\ outputData = [c \in CallIds |-> NullOutput]
    /\ executionResult = [c \in CallIds |-> << >>]
    /\ response = [c \in CallIds |-> NoResponse]
    /\ startedAfter = [c \in CallIds |-> FALSE]
    /\ overlapped = [e \in EventIds |-> FALSE]
    /\ inserted = [c \in CallIds |-> {}]
    /\ updates = [c \in CallIds |-> 0]

\* a caller invokes agentConfirm(input); the call suspends at the select.
\* Calls are numbered in the order they start, and the events after the
\* first, whose rows are the same, are first called in the order of their ids.
Call(c, event_id, approved) ==
    /\ pc[c] = "idle"
    /\ \A d \in CallIds : d < c => pc[d] # "idle"
    /\ event_id \in EventIds \ {1, 2} =>
           \E d \in CallIds : pc[d] # "idle" /\ input[d].event_id = event_id - 1
    /\ pc' = [pc EXCEPT ![c] = "select"]
    /\ input' = [input EXCEPT ![c] = [event_id |-> event_id,
                                      approved |-> approved]]
    /\ startedAfter' = [startedAfter EXCEPT ![c] =
           \E d \in CallIds : /\ pc[d] = "returned"
                              /\ input[d].event_id = event_id]
    /\ overlapped' = [e \in EventIds |->
           \/ overlapped[e]
           \/ /\ e = event_id
              /\ \E d \in CallIds : InProgress(d) /\ input[d].event_id = e]
    /\ UNCHANGED <<store, clock, locals, response, inserted, updates>>

\* mutant: the message leaves the id out
NotFound_NoId(id) == "Agent event not found"

NotFound(id) == "Agent event with id " \o ToString(id) \o " not found"

\* mutant: the message leaves the current status out
NotAwaiting_NoStatus(id, status) ==
    "Agent event " \o ToString(id) \o " is not awaiting confirmation"

NotAwaiting(id, status) ==
    "Agent event " \o ToString(id)
        \o " is not awaiting confirmation (current status: " \o status \o ")"

\* mutant: the guard turns away executed events only
NotAwaitingConfirmation_OnlyExecuted(event) == event.status = "executed"

\* the guard on the fetched row
NotAwaitingConfirmation(event) == event.status # "awaiting_confirmation"

\* mutant: the rejection is recorded without its reason
RejectedValues_NoReason(at) ==
    [status |-> "error",
     output |-> [rejected |-> TRUE, rejected_at |-> at]]

\* the values of the rejecting update
RejectedValues(at) ==
    [status |-> "error",
     output |-> [rejected |-> TRUE, rejected_at |-> at,
                 reason |-> "User rejected proposal"]]

\* mutant: the approval is recorded without its time
ApprovedOutput_NoTimestamp(at) == [approved |-> TRUE]

\* outputData as first built on approval
ApprovedOutput(at) == [approved |-> TRUE, approved_at |-> at]

\* mutant: the message does not name the action
GenericResult_NoAction(action) ==
    [success |-> TRUE, message |-> "Action executed successfully"]

\* executionResult of an action other than create_task
GenericResult(action) ==
    [success |-> TRUE,
     message |-> "Action " \o action \o " executed successfully"]

\* executionResult of a successful Task insert
CreatedResult(newTask) ==
    [success |-> TRUE, created_task_id |-> newTask.id,
     message |-> "Task created successfully"]

\* mutant: the Task's id is not recorded in the output
CreatedOutput_NoTaskId(data, newTask) ==
    data @@ [executed_action |-> "task_created"]

\* outputData after a successful Task insert
CreatedOutput(data, newTask) ==
    data @@ [executed_action |-> "task_created", task_id |-> newTask.id]

\* executionResult of a failed Task insert
FailedResult(message) == [success |-> FALSE, error |-> message]

\* mutant: a failed execution leaves the event awaiting confirmation
FinalStatus_Pending(result) ==
    IF result.success THEN "executed" ELSE "awaiting_confirmation"

\* mutant: the event is marked executed whatever the executor returned
FinalStatus_AlwaysExecuted(result) == "executed"

\* the status the final update writes
FinalStatus(result) == IF result.success THEN "executed" ELSE "error"

\* the select resolves; the call runs up to its next await
Select(c) ==
    /\ pc[c] = "select"
    /\ LET existingEvents == SelectEvents(input[c].event_id) IN
       IF Len(existingEvents) = 0
       THEN /\ pc' = [pc EXCEPT ![c] = "thrown"]
            /\ response' = [response EXCEPT ![c] =
                   [error |-> NotFound(input[c].event_id)]]
            /\ UNCHANGED <<clock, locals>>
       ELSE IF NotAwaitingConfirmation(existingEvents[1])
       THEN /\ pc' = [pc EXCEPT ![c] = "thrown"]
            /\ response' = [response EXCEPT ![c] =
                   [error |-> NotAwaiting(input[c].event_id,
                                          existingEvents[1].status)]]
            /\ existingEvent' = [existingEvent EXCEPT ![c] = existingEvents[1]]
            /\ UNCHANGED <<clock, rejectedAt, outputData, executionResult>>
       ELSE IF ~input[c].approved
       THEN /\ pc' = [pc EXCEPT ![c] = "update_rejected"]
            /\ existingEvent' = [existingEvent EXCEPT ![c] = existingEvents[1]]
            /\ rejectedAt' = [rejectedAt EXCEPT ![c] = clock]
            /\ clock' = clock + 1
            /\ UNCHANGED <<response, outputData, executionResult>>
       ELSE IF existingEvents[1].action = "create_task"
       THEN /\ pc' = [pc EXCEPT ![c] = "insert"]
            /\ existingEvent' = [existingEvent EXCEPT ![c] = existingEvents[1]]
            /\ outputData' = [outputData EXCEPT ![c] = ApprovedOutput(clock)]
            /\ clock' = clock + 1
            /\ UNCHANGED <<response, rejectedAt, executionResult>>
       ELSE /\ pc' = [pc EXCEPT ![c] = "update"]
            /\ existingEvent' = [existingEvent EXCEPT ![c] = existingEvents[1]]
            /\ executionResult' = [executionResult EXCEPT ![c] =
                   GenericResult(existingEvents[1].action)]
            /\ outputData' = [outputData EXCEPT ![c] =
                   ApprovedOutput(clock)
                       @@ [executed_action |-> existingEvents[1].action]]
            /\ clock' = clock + 1
            /\ UNCHANGED <<response, rejectedAt>>
    /\ UNCHANGED <<store, input, history>>

\* the rejecting update resolves and the call returns
UpdateRejected(c) ==
    /\ pc[c] = "update_rejected"
    /\ events' = UpdateAgentEvent(input[c].event_id,
                                  RejectedValues(rejectedAt[c]))
    /\ response' = [response EXCEPT ![c] =
           [agent_event |-> [id |-> input[c].event_id]
                                @@ events'[input[c].event_id]]]
    /\ pc' = [pc EXCEPT ![c] = "returned"]
    /\ updates' = [updates EXCEPT ![c] = @ + 1]
    /\ UNCHANGED <<tasks, nextTaskId, clock, input, locals,
                   startedAfter, overlapped, inserted>>

\* mutant: the insert's error is not caught and leaves the call
InsertTask_Rethrows(c) ==
    /\ pc[c] = "insert"
    /\ LET values == TaskValues(existingEvent[c].input)
           error == InsertError(values)
           newTask == [id |-> nextTaskId] @@ values
       IN IF error = ""
          THEN /\ tasks' = tasks \cup {newTask}
               /\ nextTaskId' = nextTaskId + 1
               /\ inserted' = [inserted EXCEPT ![c] = @ \cup {newTask.id}]
               /\ executionResult' = [executionResult EXCEPT ![c] =
                      CreatedResult(newTask)]
               /\ outputData' = [outputData EXCEPT ![c] =
                      CreatedOutput(@, newTask)]
               /\ pc' = [pc EXCEPT ![c] = "update"]
               /\ UNCHANGED response
          ELSE /\ pc' = [pc EXCEPT ![c] = "thrown"]
               /\ response' = [response EXCEPT ![c] = [error |-> error]]
               /\ UNCHANGED <<tasks, nextTaskId, inserted, executionResult,
                              outputData>>
    /\ UNCHANGED <<events, clock, input, existingEvent, rejectedAt,
                   startedAfter, overlapped, updates>>

\* the Task insert resolves or throws; the call runs up to the final update
InsertTask(c) ==
    /\ pc[c] = "insert"
    /\ LET values == TaskValues(existingEvent[c].input)
           error == InsertError(values)
           newTask == [id |-> nextTaskId] @@ values
       IN IF error = ""
          THEN /\ tasks' = tasks \cup {newTask}
               /\ nextTaskId' = nextTaskId + 1
               /\ inserted' = [inserted EXCEPT ![c] = @ \cup {newTask.id}]
               /\ executionResult' = [executionResult EXCEPT ![c] =
                      CreatedResult(newTask)]
               /\ outputData' = [outputData EXCEPT ![c] =
                      CreatedOutput(@, newTask)]
          ELSE /\ executionResult' = [executionResult EXCEPT ![c] =
                      FailedResult(error)]
               /\ outputData' = [outputData EXCEPT ![c] =
                      @ @@ [execution_error |-> error]]
               /\ UNCHANGED <<tasks, nextTaskId, inserted>>
    /\ pc' = [pc EXCEPT ![c] = "update"]
    /\ UNCHANGED <<events, clock, input, existingEvent, rejectedAt, response,
                   startedAfter, overlapped, updates>>

\* the final update resolves and the call returns
UpdateEvent(c) ==
    /\ pc[c] = "update"
    /\ events' = UpdateAgentEvent(input[c].event_id,
           [status |-> FinalStatus(executionResult[c]),
            output |-> outputData[c]])
    /\ response' = [response EXCEPT ![c] =
           [agent_event |-> [id |-> input[c].event_id]
                                @@ events'[input[c].event_id],
            execution_result |-> executionResult[c]]]
    /\ pc' = [pc EXCEPT ![c] = "returned"]
    /\ updates' = [updates EXCEPT ![c] = @ + 1]
    /\ UNCHANGED <<tasks, nextTaskId, clock, input, locals,
                   startedAfter, overlapped, inserted>>

Next ==
    \/ \E c \in CallIds, id \in EventIds \cup {MissingId}, approved \in BOOLEAN :
           Call(c, id, approved)
    \/ \E c \in CallIds : Select(c)
    \/ \E c \in CallIds : UpdateRejected(c)
    \/ \E c \in CallIds : InsertTask(c)
    \/ \E c \in CallIds : UpdateEvent(c)

Spec == Init /\ [][Next]_vars

\* the next step of call c: the await it is suspended at resolves
Resume(c) ==
    Select(c) \/ UpdateRejected(c) \/ InsertTask(c) \/ UpdateEvent(c)

\* the record store answers every request: a suspended call is eventually
\* resumed; nothing obliges a caller to start a call
FairSpec ==
    /\ Init /\ [][Next]_vars
    /\ \A c \in CallIds : WF_vars(Resume(c))

TypeOK ==
    /\ \A e \in EventIds : events[e].status \in Statuses
    /\ \A c \in CallIds : pc[c] \in {"idle", "select", "update_rejected",
                                     "insert", "update", "returned", "thrown"}

(***************************************************************************)
(* Vocabulary of the properties                                            *)
(***************************************************************************)
Terminal == {"executed", "error"}

\* the calls made on event e
CallsOn(e) == {c \in CallIds : pc[c] # "idle" /\ input[c].event_id = e}

\* the ids of the Tasks created on behalf of event e
TasksFor(e) == UNION {inserted[c] : c \in CallsOn(e)}

\* the invalid-state error text of event id in the given status
InvalidStateText(id, status) ==
    "Agent event " \o ToString(id)
        \o " is not awaiting confirmation (current status: " \o status \o ")"

\* call c takes the step that leaves the await named by at
Leaves(c, at) == pc[c] = at /\ pc'[c] # at

(***************************************************************************)
(* C1: a confirm call on event e that starts after another confirm call    *)
(* on e has returned from its terminal write throws the "not awaiting      *)
(* confirmation" error with e's id and the status e has when fetched, and  *)
(* it inserts no Task and updates no event.                                *)
(***************************************************************************)
C1_LaterConfirmThrows ==
    [][\A c \in CallIds :
         startedAfter'[c] =>
           /\ pc'[c] \in {"select", "thrown"}
           /\ inserted'[c] = {}
           /\ updates'[c] = 0
           /\ Leaves(c, "select") =>
                /\ events[input[c].event_id].status \in Terminal
                /\ response'[c] =
                     [error |-> InvalidStateText(input[c].event_id,
                                    events[input[c].event_id].status)]
                /\ store' = store]_vars

C1_Witness ==
    \E c \in CallIds : /\ startedAfter[c]
                       /\ pc[c] = "thrown"
                       /\ input[c].approved
                       /\ events[input[c].event_id].status = "error"

(***************************************************************************)
(* C2 (as stated): under every interleaving of confirm calls at most one   *)
(* Task is ever created on behalf of an event, and only an approving call  *)
(* on a create_task event creates one.                                     *)
(***************************************************************************)
OnlyApprovedCreateTaskInserts ==
    \A c \in CallIds :
        inserted[c] # {} =>
            /\ input[c].approved
            /\ input[c].event_id \in EventIds
            /\ events[input[c].event_id].action = "create_task"

C2_AtMostOneTaskEver ==
    /\ \A e \in EventIds : Cardinality(TasksFor(e)) <= 1
    /\ OnlyApprovedCreateTaskInserts

(***************************************************************************)
(* C2 (amended): at most one Task is ever created on behalf of an event    *)
(* whose confirm calls do not overlap in time; under every interleaving    *)
(* each call creates at most one Task, and only an approving call on a     *)
(* create_task event creates one.                                          *)
(***************************************************************************)
C2_AtMostOneTaskWithoutOverlap ==
    /\ \A e \in EventIds : ~overlapped[e] => Cardinality(TasksFor(e)) <= 1
    /\ \A c \in CallIds : Cardinality(inserted[c]) <= 1
    /\ OnlyApprovedCreateTaskInserts

C2_Witness ==
    \E e \in EventIds :
        /\ ~overlapped[e]
        /\ Cardinality(TasksFor(e)) = 1
        /\ \E c, d \in CallsOn(e) : c # d /\ pc[c] = "returned"
                                         /\ pc[d] = "thrown"
                                         /\ input[d].approved

(***************************************************************************)
(* C3 (as stated): an event's output is null until a confirm call writes   *)
(* it, and once it is non-null no step of any call changes it.             *)
(***************************************************************************)
OutputWrittenByConfirm ==
    \A e \in EventIds :
        events'[e].output # events[e].output =>
            \E c \in CallIds : /\ input[c].event_id = e
                               /\ updates'[c] = updates[c] + 1

C3_OutputNeverRewritten ==
    [][/\ OutputWrittenByConfirm
       /\ \A e \in EventIds :
            events[e].output # NullOutput =>
                events'[e].output = events[e].output]_vars

(***************************************************************************)
(* C3 (amended): an event's output is null until a confirm call writes it, *)
(* and once it is non-null no step changes it unless confirm calls on that *)
(* event overlapped in time.                                               *)
(***************************************************************************)
C3_OutputRewrittenOnlyOnOverlap ==
    [][/\ OutputWrittenByConfirm
       /\ \A e \in EventIds :
            events[e].output # NullOutput /\ ~overlapped[e] =>
                events'[e].output = events[e].output]_vars

C3_Witness ==
    \E e \in EventIds :
        /\ ~overlapped[e]
        /\ events[e].output # NullOutput
        /\ \E c \in CallsOn(e) : startedAfter[c] /\ pc[c] = "thrown"

(***************************************************************************)
(* C4 (as stated): confirm writes only an event whose persisted status is  *)
(* awaiting_confirmation, and once an event's status is executed or error  *)
(* no step of any call changes it.                                         *)
(***************************************************************************)
C4_TransitionedOnce ==
    [][/\ \A c \in CallIds :
            updates'[c] # updates[c] =>
                events[input[c].event_id].status = "awaiting_confirmation"
       /\ \A e \in EventIds :
            events[e].status \in Terminal =>
                events'[e].status = events[e].status]_vars

(***************************************************************************)
(* C4 (amended): confirm writes only an event whose status was             *)
(* awaiting_confirmation when the writing call fetched it, and an event    *)
(* that is not awaiting_confirmation is never written unless confirm calls *)
(* on it overlapped in time: without overlap the event is transitioned     *)
(* exactly once and a status of executed or error never changes.           *)
(***************************************************************************)
C4_TransitionedOnceWithoutOverlap ==
    [][/\ \A c \in CallIds :
            updates'[c] # updates[c] =>
                /\ existingEvent[c].status = "awaiting_confirmation"
                /\ updates[c] = 0
                /\ events'[input[c].event_id].status \in Terminal
                /\ ~overlapped[input[c].event_id] =>
                     events[input[c].event_id].status = "awaiting_confirmation"
       /\ \A e \in EventIds :
            events'[e] # events[e] =>
                \E c \in CallIds : /\ input[c].event_id = e
                                   /\ updates'[c] # updates[c]
       /\ \A e \in EventIds :
            events[e].status \in Terminal /\ ~overlapped[e] =>
                events'[e].status = events[e].status]_vars

C4_Witness ==
    \E e \in EventIds :
        /\ ~overlapped[e]
        /\ events[e].status = "executed"
        /\ \E c, d \in CallsOn(e) : /\ pc[c] = "returned"
                                    /\ pc[d] = "thrown"
                                    /\ ~input[d].approved
                                    /\ startedAfter[d]

(***************************************************************************)
(* C5 (as stated): in every reachable state a Task created on behalf of    *)
(* event e exists only if e's status is executed and output.task_id is     *)
(* that Task's id.                                                         *)
(***************************************************************************)
RecordsTask(e, t) ==
    /\ events[e].status = "executed"
    /\ Has(events[e].output, "task_id")
    /\ events[e].output.task_id = t

C5_NoInterimState ==
    \A e \in EventIds : \A t \in TasksFor(e) : RecordsTask(e, t)

(***************************************************************************)
(* C5 (amended): the event itself has no interim state, but the Task is    *)
(* visible before the event is updated: a Task created on behalf of e      *)
(* exists while e is still awaiting_confirmation only between the insert   *)
(* and the update of the call that inserted it, and when the confirm calls *)
(* on e did not overlap, once that call has returned e's status is         *)
(* executed with output.task_id equal to the Task's id.                    *)
(***************************************************************************)
C5_InterimOnlyBetweenInsertAndUpdate ==
    /\ \A e \in EventIds :
          events[e].output # NullOutput => events[e].status \in Terminal
    /\ \A c \in CallIds : \A t \in inserted[c] :
          LET e == input[c].event_id IN
          /\ \E task \in tasks : task.id = t
          /\ pc[c] \in {"update", "returned"}
          /\ events[e].status = "awaiting_confirmation" => pc[c] = "update"
          /\ pc[c] = "returned" /\ ~overlapped[e] => RecordsTask(e, t)

C5_Witness ==
    \E c \in CallIds : \E t \in inserted[c] :
        /\ pc[c] = "returned"
        /\ ~overlapped[input[c].event_id]
        /\ RecordsTask(input[c].event_id, t)

(***************************************************************************)
(* Steps of a call, as the properties of single calls name them            *)
(***************************************************************************)
\* call c's select returns an awaiting_confirmation event
FetchesAwaiting(c) ==
    /\ Leaves(c, "select")
    /\ input[c].event_id \in EventIds
    /\ events[input[c].event_id].status = "awaiting_confirmation"

\* the response of call c is a normal return carrying the persisted event
ReturnsPersisted(c) ==
    /\ pc'[c] = "returned"
    /\ Has(response'[c], "agent_event")
    /\ response'[c].agent_event =
           [id |-> input[c].event_id] @@ events'[input[c].event_id]

(***************************************************************************)
(* C6: a confirm call with approved=false on an awaiting_confirmation      *)
(* event, whatever its action, persists status error and output            *)
(* {rejected: true, rejected_at: <the time the call read>, reason: 'User   *)
(* rejected proposal'}, returns the updated event without execution_result *)
(* and inserts no Task.                                                    *)
(***************************************************************************)
C6_RejectionPersisted ==
    [][\A c \in CallIds :
         LET e == input[c].event_id IN
         /\ FetchesAwaiting(c) /\ ~input[c].approved =>
              /\ pc'[c] = "update_rejected"
              /\ rejectedAt'[c] = clock
              /\ store' = store
         /\ Leaves(c, "update_rejected") =>
              /\ events'[e].status = "error"
              /\ events'[e].output =
                     [rejected |-> TRUE, rejected_at |-> rejectedAt[c],
                      reason |-> "User rejected proposal"]
              /\ ReturnsPersisted(c)
              /\ ~Has(response'[c], "execution_result")
              /\ tasks' = tasks
              /\ inserted'[c] = {}]_vars

C6_Witness ==
    \E c \in CallIds :
        /\ pc[c] = "returned"
        /\ ~input[c].approved
        /\ existingEvent[c].action = "schedule_meeting"
        /\ events[input[c].event_id].status = "error"
        /\ Has(events[input[c].event_id].output, "rejected")

(***************************************************************************)
(* C7: approving a create_task event with valid task input creates one     *)
(* Task and records it.  The steps of such a call, for a given notion of   *)
(* valid input and of a Task matching its input:                           *)
(***************************************************************************)
HasWorkspaceAndTitle(i) ==
    /\ Has(i, "workspace_id")
    /\ i.workspace_id \in Workspaces
    /\ Has(i, "title")

WellFormedTaskInput(i) ==
    /\ HasWorkspaceAndTitle(i)
    /\ Truthy(i, "priority") => i.priority \in {"low", "med", "high"}
    /\ Truthy(i, "due_at") => ParseDate(i.due_at) # "Invalid Date"

EqualsInput(t, i) ==
    /\ t.workspace_id = i.workspace_id
    /\ t.title = i.title
    /\ Has(i, "description") => t.description = i.description
    /\ Has(i, "priority") => t.priority = i.priority

EqualsInputOrDefault(t, i) ==
    /\ t.workspace_id = i.workspace_id
    /\ t.title = i.title
    /\ t.description = IF Truthy(i, "description") THEN i.description ELSE Null
    /\ t.priority = IF Truthy(i, "priority") THEN i.priority ELSE "med"

CreatesAndRecordsTask(c, Valid(_), Matches(_, _)) ==
    LET e == input[c].event_id
        i == existingEvent[c].input
    IN
    /\ FetchesAwaiting(c) /\ input[c].approved
                          /\ events[e].action = "create_task" =>
         pc'[c] = "insert" /\ store' = store
    /\ Leaves(c, "insert") /\ Valid(i) =>
         \E t \in tasks' :
             /\ \A u \in tasks : u.id # t.id
             /\ tasks' = tasks \cup {t}
             /\ inserted'[c] = {t.id}
             /\ Matches(t, i)
             /\ t.status = "todo"
    /\ Leaves(c, "update") /\ existingEvent[c].action = "create_task"
                           /\ Valid(i) =>
         \E t \in tasks :
             /\ inserted[c] = {t.id}
             /\ tasks' = tasks
             /\ events'[e].status = "executed"
             /\ Has(events'[e].output, "task_id")
             /\ events'[e].output.approved = TRUE
             /\ events'[e].output.executed_action = "task_created"
             /\ events'[e].output.task_id = t.id
             /\ ReturnsPersisted(c)
             /\ response'[c].execution_result =
                    [success |-> TRUE, created_task_id |-> t.id,
                     message |-> "Task created successfully"]

(***************************************************************************)
(* C7 (as stated): approving a create_task event with valid task input    *)
(* persists status executed with output.approved, executed_action          *)
(* 'task_created' and the new Task's id, returns {success: true,           *)
(* created_task_id, message}, and adds exactly one Task, in status todo,   *)
(* whose workspace_id, title, description and priority equal the input's.  *)
(* Valid is taken in the sense most favourable to the statement: the       *)
(* workspace exists, the title is present, and the optional fields that    *)
(* are given are well-formed.                                              *)
(***************************************************************************)
C7_TaskEqualsInput ==
    [][\A c \in CallIds :
         CreatesAndRecordsTask(c, WellFormedTaskInput, EqualsInput)]_vars

(***************************************************************************)
(* C7 (amended): valid task input has an existing workspace_id, a title, a *)
(* priority that is absent, empty or one of low, med, high, and a due_at   *)
(* that is absent, empty or a parseable date; the one Task added has the   *)
(* input's workspace_id and title, the input's description or null when it *)
(* is absent or empty, the input's priority or med when it is absent or    *)
(* empty, and status todo; the rest as stated.                             *)
(***************************************************************************)
C7_TaskEqualsInputOrDefault ==
    [][\A c \in CallIds :
         CreatesAndRecordsTask(c, WellFormedTaskInput,
                               EqualsInputOrDefault)]_vars

C7_Witness ==
    \E c \in CallIds : \E t \in tasks :
        /\ pc[c] = "returned"
        /\ inserted[c] = {t.id}
        /\ t.priority = "high"
        /\ t.description = "Task created by agent"
        /\ response[c].execution_result.created_task_id = t.id

(***************************************************************************)
(* C8: approving a create_task event whose input names a workspace that    *)
(* does not exist returns normally, persists status error with             *)
(* output.approved, approved_at and execution_error (the failure message)  *)
(* and neither executed_action nor task_id, returns {success: false,       *)
(* error: <the same message>}, and leaves the Task set unchanged.          *)
(***************************************************************************)
NamesMissingWorkspace(i) ==
    Has(i, "workspace_id") /\ i.workspace_id \notin Workspaces

C8_MissingWorkspaceIsExecutionError ==
    [][\A c \in CallIds :
         LET e == input[c].event_id
             i == existingEvent[c].input
         IN
         /\ FetchesAwaiting(c) /\ input[c].approved
                               /\ events[e].action = "create_task" =>
              pc'[c] = "insert"
         /\ Leaves(c, "insert") /\ NamesMissingWorkspace(i) =>
              /\ pc'[c] = "update"
              /\ tasks' = tasks
              /\ inserted'[c] = {}
         /\ Leaves(c, "update") /\ existingEvent[c].action = "create_task"
                                /\ NamesMissingWorkspace(i) =>
              /\ ReturnsPersisted(c)
              /\ events'[e].status = "error"
              /\ DOMAIN events'[e].output =
                     {"approved", "approved_at", "execution_error"}
              /\ events'[e].output.approved = TRUE
              /\ events'[e].output.execution_error # ""
              /\ response'[c].execution_result =
                     [success |-> FALSE,
                      error |-> events'[e].output.execution_error]
              /\ tasks' = tasks
              /\ inserted[c] = {}]_vars

C8_Witness ==
    \E c \in CallIds :
        /\ pc[c] = "returned"
        /\ input[c].approved
        /\ existingEvent[c].action = "create_task"
        /\ NamesMissingWorkspace(existingEvent[c].input)
        /\ response[c].execution_result.success = FALSE
        /\ response[c].agent_event.status = "error"

(***************************************************************************)
(* C9: approving an awaiting_confirmation event whose action is not        *)
(* create_task persists status executed with output.approved and           *)
(* output.executed_action equal to the action, returns exactly             *)
(* {success: true, message: 'Action <action> executed successfully'}, and  *)
(* writes nothing to the store but that event.                             *)
(***************************************************************************)
C9_OtherActionsExecuteGenerically ==
    [][\A c \in CallIds :
         LET e == input[c].event_id IN
         /\ FetchesAwaiting(c) /\ input[c].approved
                               /\ events[e].action # "create_task" =>
              /\ pc'[c] = "update"
              /\ store' = store
         /\ Leaves(c, "update") /\ existingEvent[c].action # "create_task" =>
              /\ ReturnsPersisted(c)
              /\ events'[e].status = "executed"
              /\ DOMAIN events'[e].output =
                     {"approved", "approved_at", "executed_action"}
              /\ events'[e].output.approved = TRUE
              /\ events'[e].output.executed_action = events[e].action
              /\ response'[c].execution_result =
                     [success |-> TRUE,
                      message |-> "Action " \o events[e].action
                                      \o " executed successfully"]
              /\ tasks' = tasks
              /\ nextTaskId' = nextTaskId
              /\ inserted[c] = {}
              /\ \A f \in EventIds \ {e} : events'[f] = events[f]]_vars

C9_Witness ==
    \E c \in CallIds :
        /\ pc[c] = "returned"
        /\ input[c].approved
        /\ response[c].agent_event.action = "CREATE_TASK"
        /\ response[c].execution_result.message =
               "Action CREATE_TASK executed successfully"
        /\ inserted[c] = {}

(***************************************************************************)
(* C10: a confirm call whose event_id matches no stored AgentEvent throws  *)
(* 'Agent event with id <id> not found', whether approved is true or       *)
(* false, and leaves every event and every Task unchanged.                 *)
(***************************************************************************)
C10_MissingEventThrowsNotFound ==
    [][\A c \in CallIds :
         /\ Leaves(c, "select") /\ input[c].event_id \notin EventIds =>
              /\ pc'[c] = "thrown"
              /\ response'[c] =
                     [error |-> "Agent event with id "
                                    \o ToString(input[c].event_id)
                                    \o " not found"]
              /\ store' = store
         /\ pc'[c] # "idle" /\ input'[c].event_id \notin EventIds =>
              /\ pc'[c] \in {"select", "thrown"}
              /\ inserted'[c] = {}
              /\ updates'[c] = 0]_vars

C10_Witness ==
    \E c, d \in CallIds :
        /\ pc[c] = "thrown" /\ pc[d] = "thrown"
        /\ input[c].event_id = MissingId /\ input[d].event_id = MissingId
        /\ input[c].approved /\ ~input[d].approved
        /\ response[c] = [error |-> "Agent event with id 99999 not found"]

(***************************************************************************)
(* C11: a confirm call on an existing event whose status when fetched is   *)
(* not awaiting_confirmation (executed, error, or an upstream status)      *)
(* throws 'Agent event <id> is not awaiting confirmation (current status:  *)
(* <status>)', whether approved is true or false, and changes neither the  *)
(* event nor the Task set.                                                 *)
(***************************************************************************)
C11_NotAwaitingThrowsInvalidState ==
    [][\A c \in CallIds :
         LET e == input[c].event_id IN
         Leaves(c, "select") /\ e \in EventIds
                             /\ events[e].status # "awaiting_confirmation" =>
             /\ pc'[c] = "thrown"
             /\ response'[c] =
                    [error |-> "Agent event " \o ToString(e)
                         \o " is not awaiting confirmation (current status: "
                         \o events[e].status \o ")"]
             /\ events' = events
             /\ tasks' = tasks
             /\ inserted'[c] = {}
             /\ updates'[c] = 0]_vars

C11_Witness ==
    \E c, d \in CallIds :
        /\ pc[c] = "thrown" /\ pc[d] = "thrown"
        /\ input[c].approved /\ ~input[d].approved
        /\ response[c] = [error |->
             "Agent event 1 is not awaiting confirmation (current status: draft)"]
        /\ response[d] = response[c]

(***************************************************************************)
(* C12: a confirm call throws only when the event is not found or is not   *)
(* awaiting_confirmation; a failure of the approved action (the store      *)
(* rejects the insert; workspace_id or title is absent, the workspace does *)
(* not exist, priority or due_at is invalid) is returned as                *)
(* execution_result {success: false, error}, with the same message in      *)
(* output.execution_error and the event persisted in status error.         *)
(***************************************************************************)
C12_ExecutionFailuresAreData ==
    [][\A c \in CallIds :
         LET e == input[c].event_id
             i == existingEvent[c].input
         IN
         /\ pc'[c] = "thrown" /\ pc[c] # "thrown" =>
              /\ pc[c] = "select"
              /\ \/ e \notin EventIds
                 \/ events[e].status # "awaiting_confirmation"
         /\ Leaves(c, "insert") =>
              /\ pc'[c] = "update"
              /\ ~WellFormedTaskInput(i) => inserted'[c] = {}
              /\ inserted'[c] = {} => tasks' = tasks
         /\ Leaves(c, "update") /\ existingEvent[c].action = "create_task"
                                /\ inserted[c] = {} =>
              /\ ReturnsPersisted(c)
              /\ events'[e].status = "error"
              /\ Has(events'[e].output, "execution_error")
              /\ events'[e].output.execution_error # ""
              /\ response'[c].execution_result =
                     [success |-> FALSE,
                      error |-> events'[e].output.execution_error]]_vars

C12_Witness ==
    \E c \in CallIds :
        /\ pc[c] = "returned"
        /\ existingEvent[c].action = "create_task"
        /\ input[c].approved
        /\ ~Has(existingEvent[c].input, "title")
        /\ response[c].agent_event.status = "error"
        /\ response[c].execution_result.success = FALSE

(***************************************************************************)
(* C13: when a create_task event is approved (its workspace exists, its    *)
(* title is present and its due_at, if given, parses), the Task's priority *)
(* is the input's priority if that is one of low, med, high, and med when  *)
(* the input's priority is absent or is any other value; in that case too  *)
(* the Task is created and the event ends in status executed.              *)
(***************************************************************************)
PriorityOrMed(i) ==
    IF Has(i, "priority") /\ i.priority \in {"low", "med", "high"}
    THEN i.priority ELSE "med"

OtherwiseValid(i) ==
    /\ HasWorkspaceAndTitle(i)
    /\ Truthy(i, "due_at") => ParseDate(i.due_at) # "Invalid Date"

C13_InvalidPriorityDefaultsToMed ==
    [][\A c \in CallIds :
         LET e == input[c].event_id
             i == existingEvent[c].input
         IN
         /\ Leaves(c, "insert") /\ OtherwiseValid(i) =>
              \E t \in tasks' \ tasks :
                  /\ inserted'[c] = {t.id}
                  /\ t.priority = PriorityOrMed(i)
         /\ Leaves(c, "update") /\ existingEvent[c].action = "create_task"
                                /\ OtherwiseValid(i) =>
              /\ events'[e].status = "executed"
              /\ \E t \in tasks : /\ inserted[c] = {t.id}
                                  /\ t.priority = PriorityOrMed(i)]_vars

(***************************************************************************)
(* C14: in every reachable state every event whose output confirm has      *)
(* written carries exactly one decision record: either rejected = true     *)
(* with rejected_at and reason and neither approved nor approved_at, or    *)
(* approved = true with approved_at and neither rejected nor rejected_at;  *)
(* approved_at is there whether the execution succeeded or failed.         *)
(***************************************************************************)
RejectionRecord(o) ==
    /\ Has(o, "rejected") /\ Has(o, "rejected_at") /\ Has(o, "reason")
    /\ o.rejected = TRUE
    /\ o.rejected_at \in 1..(clock - 1)
    /\ ~Has(o, "approved") /\ ~Has(o, "approved_at")

ApprovalRecord(o) ==
    /\ Has(o, "approved") /\ Has(o, "approved_at")
    /\ o.approved = TRUE
    /\ o.approved_at \in 1..(clock - 1)
    /\ ~Has(o, "rejected") /\ ~Has(o, "rejected_at")

C14_OneDecisionRecord ==
    \A e \in EventIds :
        events[e].output # NullOutput =>
            /\ RejectionRecord(events[e].output)
                   \/ ApprovalRecord(events[e].output)
            /\ ~(RejectionRecord(events[e].output)
                   /\ ApprovalRecord(events[e].output))

C14_Witness ==
    \E e, f \in EventIds :
        /\ events[e].status = "error"
        /\ ApprovalRecord(events[e].output)
        /\ Has(events[e].output, "execution_error")
        /\ events[f].status = "executed"
        /\ ApprovalRecord(events[f].output)

(***************************************************************************)
(* C15: a confirm call that passes both precondition checks makes a single *)
(* attempt in a fixed order: the fetch, then (only if approved and the     *)
(* action is create_task) one Task insert, then exactly one update of the  *)
(* event that carries both status and output.  The update never comes      *)
(* before the insert has finished, the insert is never retried and the     *)
(* event is never written twice by one call.                               *)
(***************************************************************************)
\* the awaits a call may pass from one to the next
Order ==
    { <<"idle", "select">>,
      <<"select", "thrown">>, <<"select", "update_rejected">>,
      <<"select", "insert">>, <<"select", "update">>,
      <<"update_rejected", "returned">>,
      <<"insert", "update">>,
      <<"update", "returned">> }

C15_SingleAttemptInOrder ==
    [][\A c \in CallIds :
         LET e == input[c].event_id IN
         /\ pc'[c] # pc[c] => <<pc[c], pc'[c]>> \in Order
         /\ Leaves(c, "select") =>
              /\ store' = store
              /\ pc'[c] = "insert" <=>
                   /\ e \in EventIds
                   /\ events[e].status = "awaiting_confirmation"
                   /\ input[c].approved
                   /\ events[e].action = "create_task"
         /\ inserted'[c] # inserted[c] =>
              /\ Leaves(c, "insert")
              /\ inserted[c] = {}
              /\ Cardinality(inserted'[c]) = 1
              /\ updates[c] = 0
         /\ Leaves(c, "insert") => events' = events /\ updates'[c] = 0
         /\ updates'[c] # updates[c] =>
              /\ pc[c] \in {"update_rejected", "update"}
              /\ pc'[c] = "returned"
              /\ updates[c] = 0 /\ updates'[c] = 1
              /\ tasks' = tasks
              /\ events'[e].status \in Terminal
              /\ events'[e].output # NullOutput
              /\ events'[e].output = response'[c].agent_event.output
              /\ events'[e].status = response'[c].agent_event.status
         /\ pc'[c] = "returned" => updates'[c] = 1
         /\ pc'[c] \in {"idle", "select", "thrown", "update_rejected",
                        "insert"} => updates'[c] = 0]_vars

C15_Witness ==
    \E c \in CallIds :
        /\ pc[c] = "returned"
        /\ updates[c] = 1
        /\ Cardinality(inserted[c]) = 1
        /\ input[c].approved
        /\ events[input[c].event_id].status = "executed"

(***************************************************************************)
(* C16: when the record store answers every request, every started confirm *)
(* call eventually returns or throws; a call that passed the               *)
(* awaiting_confirmation guard has, when it returns, left its event in     *)
(* status executed or error; and no event for which a call passed the      *)
(* guard stays awaiting_confirmation forever.                              *)
(***************************************************************************)
PassedGuard(c) == pc[c] \in {"update_rejected", "insert", "update"}

\* A call never leaves Finished and a call past the guard can only return,
\* so "every started call eventually completes" is: from some point on no
\* call is in progress any more.
C16_EveryCallCompletes ==
    /\ <>[](\A c \in CallIds : ~InProgress(c))
    /\ [][\A c \in CallIds :
            /\ Finished(c) => pc'[c] = pc[c]
            /\ PassedGuard(c) => PassedGuard(c)' \/ pc'[c] = "returned"]_vars
    /\ [](\A c \in CallIds :
            pc[c] = "returned" =>
                events[input[c].event_id].status \in Terminal)

C16_Witness ==
    /\ \A c \in CallIds : Finished(c)
    /\ \E c \in CallIds : /\ pc[c] = "returned"
                          /\ input[c].approved
                          /\ response[c].execution_result.success = FALSE
                          /\ events[input[c].event_id].status = "error"

(***************************************************************************)
(* C17: in every reachable state the status and the output of an event     *)
(* written by confirm agree: the status is executed exactly when the       *)
(* output has approved = true, an executed_action and no execution_error;  *)
(* status error means the output has rejected = true or an                 *)
(* execution_error; and task_id is present only when the action is         *)
(* create_task and executed_action is 'task_created', and then it is the   *)
(* id of an existing Task.                                                 *)
(***************************************************************************)
C17_StatusAgreesWithOutput ==
    \A e \in EventIds :
        LET o == events[e].output IN
        o # NullOutput =>
            /\ events[e].status \in Terminal
            /\ events[e].status = "executed" <=>
                   /\ Has(o, "approved") /\ o.approved = TRUE
                   /\ Has(o, "executed_action")
                   /\ ~Has(o, "execution_error")
            /\ events[e].status = "error" =>
                   \/ Has(o, "rejected") /\ o.rejected = TRUE
                   \/ Has(o, "execution_error")
            /\ Has(o, "task_id") =>
                   /\ events[e].action = "create_task"
                   /\ Has(o, "executed_action")
                   /\ o.executed_action = "task_created"
                   /\ \E t \in tasks : t.id = o.task_id

C17_Witness ==
    \E e, f \in EventIds :
        /\ events[e].status = "executed"
        /\ Has(events[e].output, "task_id")
        /\ events[f].status = "error"
        /\ Has(events[f].output, "rejected")

(***************************************************************************)
(* C18: a confirm call on event e changes only e's status and output: e's  *)
(* id, workspace_id, agent, action and input are never modified, every     *)
(* other event is left as it is, and an existing Task is never modified or *)
(* deleted (the Task set only grows).                                      *)
(***************************************************************************)
C18_OnlyStatusAndOutputChange ==
    [][/\ DOMAIN events' = DOMAIN events
       /\ \A e \in EventIds :
            /\ events'[e].workspace_id = events[e].workspace_id
            /\ events'[e].agent = events[e].agent
            /\ events'[e].action = events[e].action
            /\ events'[e].input = events[e].input
            /\ DOMAIN events'[e] = DOMAIN events[e]
            /\ events'[e] # events[e] =>
                 \E c \in CallIds : /\ input[c].event_id = e
                                    /\ updates'[c] = updates[c] + 1
       /\ tasks \subseteq tasks'
       /\ \A t \in tasks' \ tasks : \A u \in tasks : u.id # t.id]_vars

C18_Witness ==
    \E c \in CallIds : \E e \in EventIds :
        /\ pc[c] = "returned"
        /\ input[c].event_id # e
        /\ events[input[c].event_id].output # NullOutput
        /\ events[e].status = "awaiting_confirmation"
        /\ events[e].output = NullOutput
        /\ tasks # {}
====
